---- MODULE Spec2Model ----
(***************************************************************************)
(* Model of web/src/components/video-input-form.tsx: the VideoInputForm    *)
(* component (file selection, prompt textarea, submit button) and the      *)
(* asynchronous handler handleUploadVideo with convertVideoToAudio.        *)
(* Two mounted instances of the component share the process-wide ffmpeg   *)
(* engine returned by getFFmpeg().  Every await of the handler is one      *)
(* suspension point; the code between two awaits runs as one step.         *)
(***************************************************************************)
EXTENDS Naturals, Sequences, FiniteSets

\* ---------------------------------------------------------------- bounds
NumVideos == 2
NumIds == 1
NumPrompts == 1

\* ---------------------------------------------------------------- values
\* Every value is a pair <<kind, n>> so that values of different kinds compare.
Forms == {"A", "B"}
Null == <<"null", 0>>
Undefined == <<"undefined", 0>>
Nil == <<"nil", 0>>
Videos == {<<"video", i>> : i \in 1..NumVideos}
\* value of the textarea: the empty string (0) or a typed text
PromptTexts == {<<"text", i>> : i \in 0..NumPrompts}
Placeholder == <<"placeholder", 0>>
\* event.currentTarget.files: null, an empty FileList, or a list of one video
FileLists == {Null} \cup {<<>>} \cup {<<v>> : v \in Videos}
\* createVideoResponse.data: null, an object without `video`, a `video`
\* without `id` (0), or a `video` with an id
ResponseDatas == {<<"data_null", 0>>, <<"data_novideo", 0>>} \cup {<<"data_video", i>> : i \in 0..NumIds}

Statuses == {"waiting", "converting", "uploading", "generating", "success"}
AwaitPoints == {"getFFmpeg", "fetchFile", "writeFile", "exec", "readFile", "postVideo", "postTranscription"}

VARIABLES videoFile, status, promptInputRef, pc, run, log, lastEvent, ffmpegLoaded, fs, engineLog

vars == <<videoFile, status, promptInputRef, pc, run, log, lastEvent, ffmpegLoaded, fs, engineLog>>

\* ------------------------------------------------------- pure helpers
\* files[0] of a FileList (undefined when the list is empty)
FirstFile(files) == IF Len(files) = 0 THEN Undefined ELSE files[1]

NoVideo_Never(v) == FALSE

\* `!videoFile`
NoVideo(v) == v \in {Null, Undefined}

\* promptInputRef.current?.value
PromptValue(ref) == IF ref = Null THEN Undefined ELSE ref

\* getFFmpeg(): the process-wide engine, loaded on first use and reused after
getFFmpeg(loaded) == IF loaded THEN loaded ELSE TRUE

\* fetchFile(video): the bytes of the file
fetchFile(v) == <<"bytes", v[2]>>

\* ffmpeg.exec(['-i','input.mp4','-map','0:a','-b:a','20k','-acodec','libmp3lame','output.mp3'])
Transcode(input) == <<"mp3", input[2]>>

\* new File([new Blob([data], {type:'audio/mpeg'})], 'audio.mp3', {type:'audio/mpeg'})
AudioFile(data) == <<"audio/mpeg", data[2]>>

\* const { video } = createVideoResponse.data
VideoOf(data) == IF data[1] = "data_video" THEN <<"videoobj", data[2]>> ELSE Undefined

VideoId_First(video) == <<"id", 1>>

\* video.id
VideoId(video) == IF video[2] = 0 THEN Undefined ELSE <<"id", video[2]>>

\* `/videos/${video.id}/transcription`: the id as interpolated in the path
TranscriptionUrl(id) == IF id = Undefined THEN <<"/videos/undefined/transcription", 0>> ELSE <<"/videos/{id}/transcription", id[2]>>

PromptBody_Placeholder(prompt) == IF prompt \in {Undefined, <<"text", 0>>} THEN Placeholder ELSE prompt

\* JSON body { prompt }: an undefined prompt is omitted
PromptBody(prompt) == IF prompt = Undefined THEN <<"omitted", 0>> ELSE prompt

Disabled_Never(f) == FALSE

\* disabled={status !== 'waiting'} on the input, the textarea and the button
Disabled(f) == status[f] # "waiting"

Ev(op, a, b) == [op |-> op, a |-> a, b |-> b]
SetStatusEv(s) == Ev("setStatus", <<s, 0>>, Nil)

NoRun == [prompt |-> Nil, video |-> Nil, data |-> Nil, audioFile |-> Nil, resp |-> Nil, videoObj |-> Nil, thrownAt |-> "none"]

Init ==
    /\ videoFile = [f \in Forms |-> Null]
    /\ status = [f \in Forms |-> "waiting"]
    /\ promptInputRef = [f \in Forms |-> <<"text", 0>>]
    /\ pc = [f \in Forms |-> "idle"]
    /\ run = [f \in Forms |-> NoRun]
    /\ log = [f \in Forms |-> <<>>]
    /\ lastEvent = [f \in Forms |-> "mount"]
    /\ ffmpegLoaded = FALSE
    /\ fs = [input |-> Nil, output |-> Nil]
    /\ engineLog = <<>>

\* ------------------------------------------------------------ UI events
\* variant: choosing a file also empties the prompt textarea
handleFileSelected_ClearsPrompt(f, files) ==
    /\ videoFile' = [videoFile EXCEPT ![f] = IF files = Null THEN @ ELSE FirstFile(files)]
    /\ promptInputRef' = [promptInputRef EXCEPT ![f] = <<"text", 0>>]
    /\ lastEvent' = [lastEvent EXCEPT ![f] = IF files = Null THEN "select_nofiles" ELSE "select"]
    /\ UNCHANGED <<status, pc, run, log, ffmpegLoaded, fs, engineLog>>

\* handleFileSelected, reachable only while the file input is enabled
handleFileSelected(f, files) ==
    /\ videoFile' = [videoFile EXCEPT ![f] = IF files = Null THEN @ ELSE FirstFile(files)]
    /\ lastEvent' = [lastEvent EXCEPT ![f] = IF files = Null THEN "select_nofiles" ELSE "select"]
    /\ UNCHANGED <<status, promptInputRef, pc, run, log, ffmpegLoaded, fs, engineLog>>

SelectFile(f) ==
    /\ ~Disabled(f)
    /\ \E files \in FileLists : handleFileSelected(f, files)

\* the user edits the textarea, possible only while it is enabled
TypePrompt(f) ==
    /\ ~Disabled(f)
    /\ \E t \in PromptTexts : promptInputRef' = [promptInputRef EXCEPT ![f] = t]
    /\ lastEvent' = [lastEvent EXCEPT ![f] = "type"]
    /\ UNCHANGED <<videoFile, status, pc, run, log, ffmpegLoaded, fs, engineLog>>

\* handleUploadVideo up to its first suspension (await getFFmpeg() inside
\* convertVideoToAudio)
handleUploadVideo(f) ==
    LET prompt == PromptValue(promptInputRef[f]) IN
    IF NoVideo(videoFile[f])
    THEN /\ lastEvent' = [lastEvent EXCEPT ![f] = "submit_novideo"]
         /\ UNCHANGED <<videoFile, status, promptInputRef, pc, run, log, ffmpegLoaded, fs, engineLog>>
    ELSE /\ status' = [status EXCEPT ![f] = "converting"]
         /\ run' = [run EXCEPT ![f] = [NoRun EXCEPT !.prompt = prompt, !.video = videoFile[f]]]
         /\ log' = [log EXCEPT ![f] = @ \o <<SetStatusEv("converting"), Ev("getFFmpeg", Nil, Nil)>>]
         /\ pc' = [pc EXCEPT ![f] = "getFFmpeg"]
         /\ lastEvent' = [lastEvent EXCEPT ![f] = "submit_started"]
         /\ UNCHANGED <<videoFile, promptInputRef, ffmpegLoaded, fs, engineLog>>

\* the user tries to submit the form: a disabled submit button dispatches
\* no submit event, otherwise onSubmit={handleUploadVideo} runs
Submit(f) ==
    IF Disabled(f)
    THEN /\ lastEvent' = [lastEvent EXCEPT ![f] = "submit_disabled"]
         /\ UNCHANGED <<videoFile, status, promptInputRef, pc, run, log, ffmpegLoaded, fs, engineLog>>
    ELSE handleUploadVideo(f)

\* ------------------------------------------- continuations of the handler
Step(f) == lastEvent' = [lastEvent EXCEPT ![f] = "resume"]

\* await getFFmpeg() resolves; fetchFile(video) is started
GetFFmpegResolves(f) ==
    /\ pc[f] = "getFFmpeg"
    /\ ffmpegLoaded' = getFFmpeg(ffmpegLoaded)
    /\ log' = [log EXCEPT ![f] = Append(@, Ev("fetchFile", run[f].video, Nil))]
    /\ pc' = [pc EXCEPT ![f] = "fetchFile"]
    /\ Step(f)
    /\ UNCHANGED <<videoFile, status, promptInputRef, run, fs, engineLog>>

\* await fetchFile(video) resolves; ffmpeg.writeFile('input.mp4', bytes) is issued
FetchFileResolves(f) ==
    /\ pc[f] = "fetchFile"
    /\ run' = [run EXCEPT ![f].data = fetchFile(run[f].video)]
    /\ log' = [log EXCEPT ![f] = Append(@, Ev("writeFile", <<"input.mp4", 0>>, fetchFile(run[f].video)))]
    /\ pc' = [pc EXCEPT ![f] = "writeFile"]
    /\ Step(f)
    /\ UNCHANGED <<videoFile, status, promptInputRef, ffmpegLoaded, fs, engineLog>>

\* the engine writes input.mp4; ffmpeg.exec([...]) is issued
WriteFileResolves(f) ==
    /\ pc[f] = "writeFile"
    /\ fs' = [fs EXCEPT !.input = run[f].data]
    /\ engineLog' = Append(engineLog, <<f, "writeFile">>)
    /\ log' = [log EXCEPT ![f] = Append(@, Ev("exec", <<"input.mp4", 0>>, <<"output.mp3", 0>>))]
    /\ pc' = [pc EXCEPT ![f] = "exec"]
    /\ Step(f)
    /\ UNCHANGED <<videoFile, status, promptInputRef, run, ffmpegLoaded>>

\* variant: readFile is not awaited, POST /videos is issued together with it
ExecResolves_NoAwait(f) ==
    /\ pc[f] = "exec"
    /\ fs' = [fs EXCEPT !.output = Transcode(fs.input)]
    /\ engineLog' = Append(engineLog, <<f, "exec">>)
    /\ log' = [log EXCEPT ![f] = @ \o <<Ev("readFile", <<"output.mp3", 0>>, Nil), Ev("post", <<"/videos", 0>>, Nil)>>]
    /\ pc' = [pc EXCEPT ![f] = "readFile"]
    /\ Step(f)
    /\ UNCHANGED <<videoFile, status, promptInputRef, run, ffmpegLoaded>>

\* the engine transcodes input.mp4 into output.mp3; ffmpeg.readFile('output.mp3') is issued
ExecResolves(f) ==
    /\ pc[f] = "exec"
    /\ fs' = [fs EXCEPT !.output = Transcode(fs.input)]
    /\ engineLog' = Append(engineLog, <<f, "exec">>)
    /\ log' = [log EXCEPT ![f] = Append(@, Ev("readFile", <<"output.mp3", 0>>, Nil))]
    /\ pc' = [pc EXCEPT ![f] = "readFile"]
    /\ Step(f)
    /\ UNCHANGED <<videoFile, status, promptInputRef, run, ffmpegLoaded>>

\* variant: the handler does not set 'uploading' before POST /videos
ReadFileResolves_NoUploading(f) ==
    /\ pc[f] = "readFile"
    /\ engineLog' = Append(engineLog, <<f, "readFile">>)
    /\ run' = [run EXCEPT ![f].data = fs.output, ![f].audioFile = AudioFile(fs.output)]
    /\ log' = [log EXCEPT ![f] = Append(@, Ev("post", <<"/videos", 0>>, AudioFile(fs.output)))]
    /\ pc' = [pc EXCEPT ![f] = "postVideo"]
    /\ Step(f)
    /\ UNCHANGED <<videoFile, status, promptInputRef, ffmpegLoaded, fs>>

\* readFile resolves; convertVideoToAudio returns the audio file, the handler
\* builds the FormData, sets 'uploading' and issues POST /videos
ReadFileResolves(f) ==
    /\ pc[f] = "readFile"
    /\ engineLog' = Append(engineLog, <<f, "readFile">>)
    /\ run' = [run EXCEPT ![f].data = fs.output, ![f].audioFile = AudioFile(fs.output)]
    /\ status' = [status EXCEPT ![f] = "uploading"]
    /\ log' = [log EXCEPT ![f] = @ \o <<SetStatusEv("uploading"), Ev("post", <<"/videos", 0>>, AudioFile(fs.output))>>]
    /\ pc' = [pc EXCEPT ![f] = "postVideo"]
    /\ Step(f)
    /\ UNCHANGED <<videoFile, promptInputRef, ffmpegLoaded, fs>>

\* POST /videos resolves with a response body
PostVideoResolves(f) ==
    /\ pc[f] = "postVideo"
    /\ \E data \in ResponseDatas :
        LET video == VideoOf(data) IN
        IF data[1] = "data_null"
        THEN \* destructuring null throws before setStatus('generating')
             /\ run' = [run EXCEPT ![f].resp = data, ![f].thrownAt = "destructure"]
             /\ pc' = [pc EXCEPT ![f] = "rejected"]
             /\ UNCHANGED <<status, log>>
        ELSE IF video = Undefined
        THEN \* video.id throws while the request path is built
             /\ run' = [run EXCEPT ![f].resp = data, ![f].videoObj = video, ![f].thrownAt = "video.id"]
             /\ status' = [status EXCEPT ![f] = "generating"]
             /\ log' = [log EXCEPT ![f] = Append(@, SetStatusEv("generating"))]
             /\ pc' = [pc EXCEPT ![f] = "rejected"]
        ELSE /\ run' = [run EXCEPT ![f].resp = data, ![f].videoObj = video]
             /\ status' = [status EXCEPT ![f] = "generating"]
             /\ log' = [log EXCEPT ![f] = @ \o <<SetStatusEv("generating"),
                            Ev("post", TranscriptionUrl(VideoId(video)), PromptBody(run[f].prompt))>>]
             /\ pc' = [pc EXCEPT ![f] = "postTranscription"]
    /\ Step(f)
    /\ UNCHANGED <<videoFile, promptInputRef, ffmpegLoaded, fs, engineLog>>

\* variant: after the callback the form clears itself for the next video
PostTranscriptionResolves_AutoReset(f) ==
    /\ pc[f] = "postTranscription"
    /\ status' = [status EXCEPT ![f] = "waiting"]
    /\ videoFile' = [videoFile EXCEPT ![f] = Null]
    /\ log' = [log EXCEPT ![f] = @ \o <<SetStatusEv("success"), Ev("onVideoUploaded", VideoId(run[f].videoObj), Nil), SetStatusEv("waiting")>>]
    /\ pc' = [pc EXCEPT ![f] = "done"]
    /\ Step(f)
    /\ UNCHANGED <<promptInputRef, run, ffmpegLoaded, fs, engineLog>>

\* variant: onVideoUploaded is called before setStatus('success')
PostTranscriptionResolves_CallbackFirst(f) ==
    /\ pc[f] = "postTranscription"
    /\ status' = [status EXCEPT ![f] = "success"]
    /\ log' = [log EXCEPT ![f] = @ \o <<Ev("onVideoUploaded", VideoId(run[f].videoObj), Nil), SetStatusEv("success")>>]
    /\ pc' = [pc EXCEPT ![f] = "done"]
    /\ Step(f)
    /\ UNCHANGED <<videoFile, promptInputRef, run, ffmpegLoaded, fs, engineLog>>

\* POST /videos/:id/transcription resolves: setStatus('success'), onVideoUploaded(video.id)
PostTranscriptionResolves(f) ==
    /\ pc[f] = "postTranscription"
    /\ status' = [status EXCEPT ![f] = "success"]
    /\ log' = [log EXCEPT ![f] = @ \o <<SetStatusEv("success"), Ev("onVideoUploaded", VideoId(run[f].videoObj), Nil)>>]
    /\ pc' = [pc EXCEPT ![f] = "done"]
    /\ Step(f)
    /\ UNCHANGED <<videoFile, promptInputRef, run, ffmpegLoaded, fs, engineLog>>

\* variant: the exception is swallowed and the handler goes on to the next request
AwaitRejects_Continue(f) ==
    /\ pc[f] \in AwaitPoints
    /\ run' = [run EXCEPT ![f].thrownAt = pc[f]]
    /\ IF pc[f] \in {"getFFmpeg", "fetchFile", "writeFile", "exec", "readFile"}
       THEN /\ log' = [log EXCEPT ![f] = Append(@, Ev("post", <<"/videos", 0>>, Undefined))]
            /\ pc' = [pc EXCEPT ![f] = "postVideo"]
       ELSE IF pc[f] = "postVideo"
       THEN /\ log' = [log EXCEPT ![f] = Append(@, Ev("post", TranscriptionUrl(Undefined), PromptBody(run[f].prompt)))]
            /\ pc' = [pc EXCEPT ![f] = "postTranscription"]
       ELSE /\ pc' = [pc EXCEPT ![f] = "rejected"]
            /\ UNCHANGED log
    /\ Step(f)
    /\ UNCHANGED <<videoFile, status, promptInputRef, ffmpegLoaded, fs, engineLog>>

\* variant: a failed request is issued again
AwaitRejects_Retry(f) ==
    /\ pc[f] \in AwaitPoints
    /\ run' = [run EXCEPT ![f].thrownAt = pc[f]]
    /\ IF pc[f] \in {"postVideo", "postTranscription"}
       THEN /\ log' = [log EXCEPT ![f] = Append(@, log[f][Len(log[f])])]
            /\ pc' = [pc EXCEPT ![f] = IF run[f].thrownAt = "none" THEN pc[f] ELSE "rejected"]
       ELSE /\ pc' = [pc EXCEPT ![f] = "rejected"]
            /\ UNCHANGED log
    /\ Step(f)
    /\ UNCHANGED <<videoFile, status, promptInputRef, ffmpegLoaded, fs, engineLog>>

\* variant: a failure puts the form back to 'waiting'
AwaitRejects_BackToWaiting(f) ==
    /\ pc[f] \in AwaitPoints
    /\ run' = [run EXCEPT ![f].thrownAt = pc[f]]
    /\ status' = [status EXCEPT ![f] = "waiting"]
    /\ log' = [log EXCEPT ![f] = Append(@, SetStatusEv("waiting"))]
    /\ pc' = [pc EXCEPT ![f] = "rejected"]
    /\ Step(f)
    /\ UNCHANGED <<videoFile, promptInputRef, ffmpegLoaded, fs, engineLog>>

\* the awaited promise rejects: the exception leaves handleUploadVideo, which
\* has no try/catch, so the handler's promise rejects and nothing else runs
AwaitRejects(f) ==
    /\ pc[f] \in AwaitPoints
    /\ run' = [run EXCEPT ![f].thrownAt = pc[f]]
    /\ pc' = [pc EXCEPT ![f] = "rejected"]
    /\ Step(f)
    /\ UNCHANGED <<videoFile, status, promptInputRef, log, ffmpegLoaded, fs, engineLog>>

Next ==
    \E f \in Forms :
        \/ SelectFile(f)
        \/ TypePrompt(f)
        \/ Submit(f)
        \/ GetFFmpegResolves(f)
        \/ FetchFileResolves(f)
        \/ WriteFileResolves(f)
        \/ ExecResolves(f)
        \/ ReadFileResolves(f)
        \/ PostVideoResolves(f)
        \/ PostTranscriptionResolves(f)
        \/ AwaitRejects(f)

Spec == Init /\ [][Next]_vars

\* the handler of form f is resumed: the promise it awaits settles
Resume(f) ==
    \/ GetFFmpegResolves(f)
    \/ FetchFileResolves(f)
    \/ WriteFileResolves(f)
    \/ ExecResolves(f)
    \/ ReadFileResolves(f)
    \/ PostVideoResolves(f)
    \/ PostTranscriptionResolves(f)
    \/ AwaitRejects(f)

\* every awaited engine or network call eventually settles and the event
\* loop then runs the continuation of the handler
FairSpec == Spec /\ \A f \in Forms : WF_vars(Resume(f))

\* ------------------------------------------------- observation helpers
\* positions of the events of form f with the given operation
At(f, op) == {i \in DOMAIN log[f] : log[f][i].op = op}
StatusEvents(f) == SelectSeq(log[f], LAMBDA e : e.op = "setStatus")
\* the status values form f has taken, starting with useState's initial value
StatusSeq(f) == <<"waiting">> \o [i \in 1..Len(StatusEvents(f)) |-> StatusEvents(f)[i].a[1]]
CreatePosts(f) == {i \in At(f, "post") : log[f][i].a = <<"/videos", 0>>}
TranscriptionPosts(f) == At(f, "post") \ CreatePosts(f)
Callbacks(f) == At(f, "onVideoUploaded")
EngineCalls(f) == At(f, "getFFmpeg") \cup At(f, "writeFile") \cup At(f, "exec") \cup At(f, "readFile")
ConvertPoints == {"getFFmpeg", "fetchFile", "writeFile", "exec", "readFile"}
Busy == {"converting", "uploading", "generating"}
\* this step is an invocation attempt of the submit handler on form f
SubmitStep(f) ==
    /\ lastEvent'[f] # lastEvent[f]
    /\ lastEvent'[f] \in {"submit_disabled", "submit_novideo", "submit_started"}
Frame == UNCHANGED <<videoFile, status, promptInputRef, pc, run, log, ffmpegLoaded, fs, engineLog>>

TypeOK ==
    /\ \A f \in Forms : status[f] \in Statuses
    /\ \A f \in Forms : pc[f] \in AwaitPoints \cup {"idle", "done", "rejected"}

\* C1: a run whose three stage calls all succeed takes the status values
\* waiting, converting, uploading, generating, success, each once and in
\* that order, and the status held is the last value of that sequence.
C1_SuccessfulRunOrder ==
    \A f \in Forms :
        /\ status[f] = StatusSeq(f)[Len(StatusSeq(f))]
        /\ pc[f] = "done" =>
              StatusSeq(f) = <<"waiting", "converting", "uploading", "generating", "success">>
C1_Witness == \E f \in Forms : pc[f] = "done" /\ status[f] = "success"

\* C2: a submit while no video is selected changes nothing: the status stays
\* waiting and no engine call, request or callback is issued.
C2_NoVideoNoOp ==
    [][\A f \in Forms :
         (SubmitStep(f) /\ status[f] = "waiting" /\ videoFile[f] \in {Null, Undefined})
            => (Frame /\ status'[f] = "waiting" /\ log'[f] = <<>>)]_vars
C2_Witness ==
    \E f \in Forms : lastEvent[f] = "submit_novideo" /\ videoFile[f] = Null /\ status[f] = "waiting"

\* C3: a submit attempted while the status is converting, uploading or
\* generating changes neither the status nor the calls issued, so a form
\* never starts a second run.
C3_BusySubmitRejected ==
    [][\A f \in Forms :
         (SubmitStep(f) /\ status[f] \in Busy)
            => (Frame /\ Cardinality(At(f, "getFFmpeg")) = 1)]_vars
C3_Witness ==
    \E f \in Forms : lastEvent[f] = "submit_disabled" /\ status[f] \in Busy /\ pc[f] \in AwaitPoints

\* C4: when convertVideoToAudio fails, the run issues neither POST /videos
\* nor the transcription request and does not call onVideoUploaded.
C4_ConvertFailureStops ==
    \A f \in Forms :
        run[f].thrownAt \in ConvertPoints =>
            /\ At(f, "post") = {}
            /\ Callbacks(f) = {}
C4_Witness ==
    \E f \in Forms : pc[f] = "rejected" /\ run[f].thrownAt = "exec" /\ lastEvent[f] = "submit_disabled"

\* C5: when POST /videos fails, the run issues no transcription request and
\* does not call onVideoUploaded.
C5_CreateFailureStops ==
    \A f \in Forms :
        run[f].thrownAt = "postVideo" =>
            /\ TranscriptionPosts(f) = {}
            /\ Callbacks(f) = {}
            /\ Cardinality(CreatePosts(f)) = 1
C5_Witness ==
    \E f \in Forms : pc[f] = "rejected" /\ run[f].thrownAt = "postVideo" /\ lastEvent[f] = "submit_disabled"

\* C6: when a stage call fails the status becomes a terminal Failed value
\* distinct from converting, uploading, generating and success, and no
\* further stage call is issued.
C6_FailureSetsFailed ==
    \A f \in Forms :
        pc[f] = "rejected" => status[f] \notin {"waiting", "converting", "uploading", "generating", "success"}

\* C7: onVideoUploaded is called exactly once by a run that reaches success,
\* after setStatus('success'), and never by a run that has not reached it.
C7_CallbackOnceAfterSuccess ==
    \A f \in Forms :
        LET succ == {i \in At(f, "setStatus") : log[f][i].a[1] = "success"} IN
        /\ Cardinality(Callbacks(f)) = (IF pc[f] = "done" THEN 1 ELSE 0)
        /\ Cardinality(Callbacks(f)) <= Cardinality(succ)
        /\ \A i \in Callbacks(f) : status[f] = "success" /\ \E j \in succ : j < i
        /\ status[f] = "success" <=> pc[f] = "done"
C7_Witness ==
    \E f \in Forms, g \in Forms :
        /\ pc[f] = "done" /\ Cardinality(Callbacks(f)) = 1
        /\ pc[g] = "rejected" /\ run[g].thrownAt = "postTranscription"

\* C8: in a successful run the identifier given to onVideoUploaded is the
\* id of the video in the POST /videos response of that run, and the
\* transcription request is addressed to that same id.
C8_CallbackCarriesCreatedId ==
    \A f \in Forms :
        pc[f] = "done" =>
            /\ run[f].resp[1] = "data_video"
            /\ \A i \in Callbacks(f) :
                 log[f][i].a = (IF run[f].resp[2] = 0 THEN Undefined ELSE <<"id", run[f].resp[2]>>)
            /\ \A i \in TranscriptionPosts(f) :
                 log[f][i].a = (IF run[f].resp[2] = 0
                                THEN <<"/videos/undefined/transcription", 0>>
                                ELSE <<"/videos/{id}/transcription", run[f].resp[2]>>)
C8_Witness ==
    \E f \in Forms, g \in Forms :
        /\ pc[f] = "done" /\ pc[g] = "done"
        /\ run[f].resp = <<"data_video", 1>> /\ run[g].resp = <<"data_video", 0>>

\* C9: the prompt in the body of the transcription request is the text the
\* textarea held when the form was submitted, the empty text included; it
\* is never a placeholder.
C9_PromptPassedThrough ==
    \A f \in Forms :
        \A i \in TranscriptionPosts(f) :
            /\ log[f][i].b = promptInputRef[f]
            /\ log[f][i].b # Placeholder
C9_Witness ==
    \E f \in Forms, g \in Forms :
        /\ TranscriptionPosts(f) # {} /\ promptInputRef[f] = <<"text", 0>>
        /\ TranscriptionPosts(g) # {} /\ promptInputRef[g] = <<"text", 1>>

\* C10: the engine operations of two forms sharing the engine do not
\* interleave: between a form's write of input.mp4 and its read of
\* output.mp3 no operation of the other form reaches the engine.
C10_NoInterleaving ==
    \A i, j, k \in DOMAIN engineLog :
        (i < j /\ j < k /\ engineLog[i][2] = "writeFile" /\ engineLog[k][2] = "readFile"
           /\ engineLog[i][1] = engineLog[k][1])
          => engineLog[j][1] = engineLog[i][1]

\* C11: a transcription request and a callback are made only after a POST
\* /videos response that carries a video object with an id; a response
\* without the video or without the id counts as a failed createResource.
C11_TranscriptionNeedsId ==
    \A f \in Forms :
        (TranscriptionPosts(f) # {} \/ Callbacks(f) # {}) =>
            /\ run[f].resp[1] = "data_video"
            /\ run[f].resp[2] # 0
            /\ \A i \in TranscriptionPosts(f) : log[f][i].a # <<"/videos/undefined/transcription", 0>>

\* position of a status in the order waiting < converting < uploading <
\* generating < success
Rank(s) ==
    CASE s = "waiting" -> 0
      [] s = "converting" -> 1
      [] s = "uploading" -> 2
      [] s = "generating" -> 3
      [] s = "success" -> 4
      [] OTHER -> 5

\* C12: every change of a form's status moves it to a strictly later stage,
\* also in runs that fail part-way.
C12_StatusNeverRegresses ==
    [][\A f \in Forms : status'[f] # status[f] => Rank(status'[f]) > Rank(status[f])]_vars
C12_Witness ==
    \E f \in Forms, g \in Forms :
        /\ pc[f] = "rejected" /\ status[f] = "generating"
        /\ pc[g] = "rejected" /\ status[g] = "converting"

Kind(e) ==
    IF e.op # "post" THEN e.op
    ELSE IF e.a = <<"/videos", 0>> THEN "postVideo" ELSE "postTranscription"
Issued(f, kind) == \E i \in DOMAIN log[f] : Kind(log[f][i]) = kind
\* the statements of handleUploadVideo that set the status or issue a call
HandlerOrder == <<"setStatus", "getFFmpeg", "fetchFile", "writeFile", "exec", "readFile", "setStatus", "postVideo",
                  "setStatus", "postTranscription", "setStatus", "onVideoUploaded">>
StageCalls == {"getFFmpeg", "writeFile", "exec", "readFile", "postVideo", "postTranscription"}

\* C14: the calls of a run are issued one after the other in the order of
\* the handler; while a call is awaited it is the last one issued, so no
\* two calls of a run are in flight together; POST /videos is issued only
\* after the engine read output.mp3 for this form, and the transcription
\* request only after POST /videos returned a response.
C14_StagesSequential ==
    \A f \in Forms :
        /\ Len(log[f]) <= Len(HandlerOrder)
        /\ \A i \in DOMAIN log[f] : Kind(log[f][i]) = HandlerOrder[i]
        /\ pc[f] \in AwaitPoints => Kind(log[f][Len(log[f])]) = pc[f]
        /\ Issued(f, "postVideo") =>
              /\ \E k \in DOMAIN engineLog : engineLog[k] = <<f, "readFile">>
              /\ run[f].audioFile # Nil
        /\ Issued(f, "postTranscription") => (Issued(f, "postVideo") /\ run[f].resp # Nil)
C14_Witness ==
    \E f \in Forms, g \in Forms :
        /\ pc[f] = "postTranscription"
        /\ pc[g] = "postVideo"

\* C16: a run issues each of the engine write, exec and read, POST /videos
\* and the transcription request at most once (a call already issued is
\* never issued again, and the engine never sees the same operation of a
\* form twice), and a run that reaches success has issued each of them.
C16_EachCallOnce ==
    [][\A f \in Forms :
         /\ \A i \in (Len(log[f]) + 1)..Len(log'[f]) :
               /\ Kind(log'[f][i]) \in StageCalls => ~Issued(f, Kind(log'[f][i]))
               /\ \A j \in (Len(log[f]) + 1)..(i - 1) : Kind(log'[f][j]) # Kind(log'[f][i])
         /\ Len(log'[f]) >= Len(log[f])
         /\ (Len(engineLog') > Len(engineLog) /\ engineLog'[Len(engineLog')][1] = f) =>
               /\ Len(engineLog') = Len(engineLog) + 1
               /\ \A k \in DOMAIN engineLog : engineLog[k] # engineLog'[Len(engineLog')]
         /\ (pc'[f] = "done" /\ pc[f] # "done") =>
               \A c \in StageCalls : \E i \in DOMAIN log'[f] : Kind(log'[f][i]) = c]_vars
C16_Witness ==
    \E f \in Forms, g \in Forms :
        /\ pc[f] = "done"
        /\ pc[g] = "rejected" /\ run[g].thrownAt = "postVideo" /\ Issued(g, "postVideo")

\* C15: given that every issued call settles, a run that has entered
\* converting eventually shows a terminal status, success or a failure
\* status, and does not stay in converting, uploading or generating.
C15_EventuallyTerminal ==
    \A f \in Forms : (status[f] = "converting") ~> (status[f] \in {"success", "failed"})

\* C17: the audio a run uploads with POST /videos is the engine's output
\* for the video of that same run, whatever the other form does.
C17_UploadsOwnAudio ==
    \A f \in Forms :
        \A i \in CreatePosts(f) : log[f][i].b = <<"audio/mpeg", videoFile[f][2]>>

\* C18: choosing a file changes the captured video of that form and nothing
\* else (no status change, no call, no callback); the video a run works on
\* is the one captured when the form was submitted, it is the one read and
\* written to the engine, and it does not change while the run goes on.
C18_SelectionOnlySetsVideo ==
    [][\A f \in Forms :
         /\ (lastEvent'[f] # lastEvent[f] /\ lastEvent'[f] \in {"select", "select_nofiles"}) =>
                /\ UNCHANGED <<status, promptInputRef, pc, run, log, ffmpegLoaded, fs, engineLog>>
                /\ \A g \in Forms \ {f} : videoFile'[g] = videoFile[g]
                /\ lastEvent'[f] = "select_nofiles" => videoFile'[f] = videoFile[f]
         /\ (lastEvent'[f] # lastEvent[f] /\ lastEvent'[f] = "submit_started") =>
                run'[f].video = videoFile[f]
         /\ status[f] \in Busy =>
                /\ run'[f].video = run[f].video
                /\ videoFile'[f] = videoFile[f]
                /\ \A i \in At(f, "fetchFile") : log[f][i].a = run[f].video
                /\ \A i \in At(f, "writeFile") : log[f][i].b = <<"bytes", run[f].video[2]>>]_vars
C18_Witness ==
    \E f \in Forms, g \in Forms :
        /\ f # g
        /\ lastEvent[f] = "select" /\ videoFile[f] = <<"video", 2>> /\ status[f] = "waiting"
        /\ At(g, "writeFile") # {} /\ run[g].video = <<"video", 1>>
====
